---- MODULE Spec2Model ----
(***************************************************************************)
(* The arXiv summarizer form (src/src/App.tsx): the component state held   *)
(* by App, the submit handler handleSubmit with its asynchronous           *)
(* continuation, and the two regular-expression helpers.                   *)
(*                                                                         *)
(* Text that the code inspects character by character (the url field, the  *)
(* extracted identifier, the prompt) is a sequence of one-character        *)
(* strings.  Text that the code only stores, compares with '' or tests for *)
(* truthiness (error messages, the summary) is a TLA+ string.              *)
(***************************************************************************)
EXTENDS Integers, Sequences, FiniteSets, TLC

(* ------------------------------ bounds --------------------------------- *)

\* Largest number of blanks put in front of and behind a sample input.
MaxPad == 1

\* Longest run of one repeated digit in the generated identifiers.
MaxRun == 2

(* --------------------------- string helpers ---------------------------- *)

HTTPS == <<"h","t","t","p","s",":","/","/">>
HTTP == <<"h","t","t","p",":","/","/">>
FTP == <<"f","t","p",":","/","/">>
WWW == <<"w","w","w",".">>
HOST == <<"a","r","x","i","v",".","o","r","g","/">>
HOSTX == <<"a","r","x","i","v","x","o","r","g","/">>
ABS == <<"a","b","s","/">>
PDF == <<"p","d","f","/">>
HTML == <<"h","t","m","l","/">>

Digit == {"0","1","2","3","4","5","6","7","8","9"}

\* The characters String.prototype.trim removes, as far as the samples go.
WhiteSpace == {" ", "\t"}

\* s has the literal lit at position i.
Lit(s, i, lit) ==
    /\ i + Len(lit) - 1 <= Len(s)
    /\ \A k \in 1..Len(lit) : s[i + k - 1] = lit[k]

\* First position at or after i that holds no digit: where a greedy \d*
\* started at i stops.
RECURSIVE DigitsEnd(_, _)
DigitsEnd(s, i) ==
    IF i <= Len(s) /\ s[i] \in Digit THEN DigitsEnd(s, i + 1) ELSE i

\* url.trim()
RECURSIVE TrimLeft(_)
TrimLeft(s) ==
    IF s # <<>> /\ Head(s) \in WhiteSpace THEN TrimLeft(Tail(s)) ELSE s

RECURSIVE TrimRight(_)
TrimRight(s) ==
    IF s # <<>> /\ s[Len(s)] \in WhiteSpace
    THEN TrimRight(SubSeq(s, 1, Len(s) - 1))
    ELSE s

Trim(s) == TrimRight(TrimLeft(s))

(* ------------------- the regular expression of App.tsx ------------------ *)
(*  /(?:https?:\/\/)?(?:www\.)?arxiv\.org\/(?:abs|pdf)\/                    *)
(*                                   (\d+(?:\.\d+)?(?:v\d+)?)/              *)

NoMatch == [found |-> FALSE, id |-> <<>>]

\* The alternatives the two optional groups and https? open at one start
\* position, in the order a backtracking matcher tries them (greedy first).
PrefixChoices ==
    << HTTPS \o WWW, HTTPS, HTTP \o WWW, HTTP, WWW, <<>> >>

\* (abs|pdf), in the order of the alternation.
PathChoices == << ABS, PDF >>

\* The capture group at position j: \d+ then (?:\.\d+)? then (?:v\d+)?, each
\* greedy.  Everything after \d+ is optional, so the greedy choice is final.
Group1(s, j) ==
    LET d1 == DigitsEnd(s, j)
        d2 == IF d1 <= Len(s) /\ s[d1] = "." /\ DigitsEnd(s, d1 + 1) > d1 + 1
              THEN DigitsEnd(s, d1 + 1) ELSE d1
        d3 == IF d2 <= Len(s) /\ s[d2] = "v" /\ DigitsEnd(s, d2 + 1) > d2 + 1
              THEN DigitsEnd(s, d2 + 1) ELSE d2
    IN  IF d1 > j THEN [found |-> TRUE, id |-> SubSeq(s, j, d3 - 1)]
        ELSE NoMatch

\* The literal heads the pattern can match before the capture group, in the
\* order the matcher tries them: prefix choice first, path choice second.
Heads ==
    [k \in 1..Len(PrefixChoices) * Len(PathChoices) |->
        PrefixChoices[((k - 1) \div Len(PathChoices)) + 1] \o HOST
            \o PathChoices[((k - 1) % Len(PathChoices)) + 1]]

\* One attempt: head k at start position i.
TryAt(s, i, k) ==
    IF Lit(s, i, Heads[k]) THEN Group1(s, i + Len(Heads[k])) ELSE NoMatch

\* All attempts at start position i, first success wins.
RECURSIVE MatchAt(_, _, _)
MatchAt(s, i, k) ==
    IF k > Len(Heads) THEN NoMatch
    ELSE LET m == TryAt(s, i, k)
         IN  IF m.found THEN m ELSE MatchAt(s, i, k + 1)

\* The unanchored search: start positions from the left, first success wins.
RECURSIVE RegExpExec(_, _)
RegExpExec(s, i) ==
    IF i > Len(s) + 1 THEN NoMatch
    ELSE LET m == MatchAt(s, i, 1)
         IN  IF m.found THEN m ELSE RegExpExec(s, i + 1)

\* Variant: a test that looks for the host only.
validateHostOnly(u) == \E i \in 1..Len(u) : Lit(u, i, HOST)

\* arxivRegex.test(url)
validateArxivUrl(u) == RegExpExec(u, 1).found

\* match ? match[1] : ''
extractArxivId(u) ==
    LET match == RegExpExec(u, 1)
    IN  IF match.found THEN match.id ELSE <<>>

(* ------------------------------ messages ------------------------------- *)

EmptyMsg == "Please enter an arXiv URL"
InvalidMsg == "Please enter a valid arXiv URL (e.g., https://arxiv.org/abs/1234.56789)"
ParseFailedMsg == "Failed to parse response"
SummarizeFailedMsg == "Failed to summarize paper"
ExceptionMsg == "An error occurred while processing the paper. Please try again."

AGENT_ID == "68f24d4e811f17edf77d460e"

\* `Summarize this arXiv paper: ${arxivId}`
PromptPrefix ==
    <<"S","u","m","m","a","r","i","z","e"," ","t","h","i","s"," ",
      "a","r","X","i","v"," ","p","a","p","e","r",":"," ">>

(* ---------------------------- sample inputs ---------------------------- *)

Pad(n) == [k \in 1..n |-> " "]
Rep(c, n) == [k \in 1..n |-> c]

ExampleId == <<"1","2","3","4",".","5","6","7","8","9">>
ExampleUrl == HTTPS \o HOST \o ABS \o ExampleId
Garbage == <<"h","e","l","l","o">>

\* Well-formed and malformed identifiers.
IdSamples ==
    {<<>>, ExampleId, <<"v","1">>, <<".","5">>, <<"7","v">>, <<"7","x">>,
     <<"0","7","0","4",".","0","0","0","1","v","2">>,
     <<"7",".","1",".","2">>, <<"7","v","2","v","3">>, <<"7","v","2",".","1">>}
      \cup UNION {{Rep("7", n), Rep("7", n) \o <<".">>,
                   Rep("7", n) \o <<".">> \o Rep("1", n),
                   Rep("7", n) \o <<"v">> \o Rep("2", n)} : n \in 1..MaxRun}

\* Every combination of scheme, www and path around one identifier, and
\* links with another host or another path.
ShapeSamples ==
    {s \o w \o HOST \o p \o ExampleId :
        s \in {<<>>, HTTPS, HTTP, FTP}, w \in {<<>>, WWW}, p \in {ABS, PDF}}
      \cup {HTTPS \o HOSTX \o ABS \o ExampleId,
            HTTPS \o HOST \o HTML \o ExampleId,
            HTTPS \o WWW \o ABS \o ExampleId}

\* Every identifier behind the plain link.
IdInputs == {HTTPS \o HOST \o ABS \o id : id \in IdSamples}

\* Blank input, and input with blanks around it.
PaddedInputs ==
    {Pad(k) \o x \o Pad(j) :
        k \in 0..MaxPad, j \in 0..MaxPad,
        x \in {<<>>, ExampleUrl, Garbage}}
      \cup {<<"\t">>, <<" ", "\t">>}

\* Text around the link, and several candidate links in one string.
EmbeddedInputs ==
    {Garbage \o <<" ">> \o ExampleUrl \o <<" ">> \o Garbage,
     HOST \o ABS \o <<"x"," ">> \o HOST \o PDF \o <<"1","2">>,
     HOST \o ABS \o <<"1"," ">> \o HOST \o PDF \o <<"2","v","3">>,
     HTTPS \o HTTP \o HOST \o ABS \o <<"4","2">>,
     WWW \o HTTPS \o HOST \o PDF \o <<"4","2",".","p","d","f">>}

Inputs == ShapeSamples \cup IdInputs \cup PaddedInputs \cup EmbeddedInputs

(* ------------------------ collaborator responses ----------------------- *)

Meta1 ==
    [title |-> "T1", authors |-> <<"A", "B">>, abstract |-> "abs1",
     url |-> "u1", published_date |-> "2020-01-01"]
Meta2 ==
    [title |-> "T2", authors |-> <<>>, abstract |-> "", url |-> "u2",
     published_date |-> ""]

\* An optional field is the empty set or a singleton.
MetadataOpts == {{}, {Meta1}, {Meta2}}
SummaryOpts == {{}, {""}, {"X"}, {"Y"}}
ErrorOpts == {{}, {""}, {"Paper not found"}}

\* The object { metadata?, summary?, error? } with exactly the given fields.
DataOf(m, s, e) ==
    [f \in {g \in {"metadata", "summary", "error"} :
                \/ g = "metadata" /\ m # {}
                \/ g = "summary" /\ s # {}
                \/ g = "error" /\ e # {}} |->
        CASE f = "metadata" -> CHOOSE x \in m : TRUE
          [] f = "summary" -> CHOOSE x \in s : TRUE
          [] f = "error" -> CHOOSE x \in e : TRUE]

\* interface SummaryResponse
SummaryResponse ==
    {[success |-> b, data |-> DataOf(m, s, e)] :
        b \in BOOLEAN, m \in MetadataOpts, s \in SummaryOpts, e \in ErrorOpts}

\* response.response: text that parses to a SummaryResponse, or text that
\* does not parse at all.
Unparseable == [parseable |-> FALSE]
RawResponses ==
    {[parseable |-> TRUE, value |-> r] : r \in SummaryResponse}
      \cup {Unparseable}

\* parseLLMJson(text, fallback): the parsed value, or the fallback.
parseLLMJson(raw, fallback) ==
    IF raw.parseable THEN raw.value ELSE fallback

Fallback ==
    [success |-> FALSE, data |-> DataOf({}, {}, {ParseFailedMsg})]

\* JavaScript truthiness of result.data.<f>: undefined and '' are falsy, an
\* object is truthy.
Truthy(data, f) ==
    /\ f \in DOMAIN data
    /\ f = "metadata" \/ data[f] # ""

(* -------------------------------- state -------------------------------- *)

VARIABLES
    url,        \* useState(''): the text of the input field
    loading,    \* useState(false)
    error,      \* useState(''): '' when no message is shown
    paperData,  \* useState(null): Null or [metadata, summary]
    pc,         \* where the latest handleSubmit invocation stands
    inflight,   \* collaborator calls that have not settled yet
    calls,      \* collaborator calls issued by the latest handleSubmit
    escaped     \* an exception left handleSubmit unhandled

vars == <<url, loading, error, paperData, pc, inflight, calls, escaped>>

Null == [null |-> TRUE]

Init ==
    /\ url = <<>>
    /\ loading = FALSE
    /\ error = ""
    /\ paperData = Null
    /\ pc = "start"
    /\ inflight = <<>>
    /\ calls = <<>>
    /\ escaped = FALSE

(* ------------------------------- handlers ------------------------------ *)

\* Variant: controls that stay enabled.
NeverDisabled == FALSE

\* disabled={loading} on the Input and on the submit Button.
Disabled == loading

\* onChange={(e) => setUrl(e.target.value)}
SetUrl(v) ==
    /\ ~Disabled
    /\ url' = v
    /\ UNCHANGED <<loading, error, paperData, pc, inflight, calls, escaped>>

\* Variant: the shape test made before the emptiness test.
EarlyReturnShapeFirst(u) ==
    IF ~validateArxivUrl(u) THEN InvalidMsg
    ELSE IF Trim(u) = <<>> THEN EmptyMsg
    ELSE ""

\* The two early returns of handleSubmit: the message set before returning,
\* or '' when the submission goes on.
EarlyReturn(u) ==
    IF Trim(u) = <<>> THEN EmptyMsg
    ELSE IF ~validateArxivUrl(u) THEN InvalidMsg
    ELSE ""

\* Variant: the prompt built from the whole input.
AgentCallRawUrl(u) ==
    [message |-> PromptPrefix \o u, agent_id |-> AGENT_ID]

\* The arguments of callAIAgent.
AgentCall(u) ==
    [message |-> PromptPrefix \o extractArxivId(u), agent_id |-> AGENT_ID]

\* Variant: the previous message left in place.
ErrorKept == error

\* setError('') at the head of handleSubmit.
ClearedError == ""

\* Variant: the previous result left in place.
PaperDataKept == paperData

\* setPaperData(null) at the head of handleSubmit.
ClearedPaperData == Null

\* handleSubmit up to its await: one run-to-completion step of the event loop.
HandleSubmit ==
    LET early == EarlyReturn(url)
        call == AgentCall(url)
    IN  /\ ~Disabled
        /\ escaped' = escaped
        /\ paperData' = ClearedPaperData
        /\ IF early # ""
           THEN /\ error' = early
                /\ pc' = "returned"
                /\ calls' = <<>>
                /\ UNCHANGED <<url, loading, inflight>>
           ELSE /\ error' = ClearedError
                /\ loading' = TRUE
                /\ inflight' = Append(inflight, call)
                /\ calls' = <<call>>
                /\ pc' = "awaiting"
                /\ UNCHANGED url

\* Variant: ?? in place of ||, so that an empty error message is shown.
ClassifyNullish(result) ==
    IF result.success /\ Truthy(result.data, "metadata")
                      /\ Truthy(result.data, "summary")
    THEN [ok |-> TRUE,
          paperData |-> [metadata |-> result.data["metadata"],
                         summary |-> result.data["summary"]]]
    ELSE [ok |-> FALSE,
          error |-> IF "error" \in DOMAIN result.data
                    THEN result.data["error"] ELSE SummarizeFailedMsg]

\* Variant: the success flag not consulted.
ClassifyIgnoresSuccess(result) ==
    IF Truthy(result.data, "metadata") /\ Truthy(result.data, "summary")
    THEN [ok |-> TRUE,
          paperData |-> [metadata |-> result.data["metadata"],
                         summary |-> result.data["summary"]]]
    ELSE [ok |-> FALSE,
          error |-> IF Truthy(result.data, "error")
                    THEN result.data["error"] ELSE SummarizeFailedMsg]

\* The if/else on the parsed result: what is stored.
Classify(result) ==
    IF result.success /\ Truthy(result.data, "metadata")
                      /\ Truthy(result.data, "summary")
    THEN [ok |-> TRUE,
          paperData |-> [metadata |-> result.data["metadata"],
                         summary |-> result.data["summary"]]]
    ELSE [ok |-> FALSE,
          error |-> IF Truthy(result.data, "error")
                    THEN result.data["error"] ELSE SummarizeFailedMsg]

\* Variant: the cause shown to the user.
CatchShowsCause == [error |-> "Network Error", rethrow |-> FALSE]

\* catch (err) { setError(...) }: the message, and whether err is rethrown.
Catch == [error |-> ExceptionMsg, rethrow |-> FALSE]

\* Variant: no finally clause.
FinallySkipped == TRUE

\* finally { setLoading(false) }
Finally == FALSE

Remove(q, i) == SubSeq(q, 1, i - 1) \o SubSeq(q, i + 1, Len(q))

\* The continuation of handleSubmit when call i resolves with text raw.
Resolve(i, raw) ==
    /\ i \in 1..Len(inflight)
    /\ LET result == parseLLMJson(raw, Fallback)
           out == Classify(result)
       IN  IF out.ok
           THEN paperData' = out.paperData /\ error' = error
           ELSE error' = out.error /\ paperData' = paperData
    /\ loading' = Finally
    /\ inflight' = Remove(inflight, i)
    /\ pc' = "done"
    /\ UNCHANGED <<url, calls, escaped>>

\* The continuation of handleSubmit when call i rejects.
Reject(i) ==
    /\ i \in 1..Len(inflight)
    /\ error' = Catch.error
    /\ escaped' = (escaped \/ Catch.rethrow)
    /\ loading' = Finally
    /\ inflight' = Remove(inflight, i)
    /\ pc' = "done"
    /\ UNCHANGED <<url, paperData, calls>>

Settle == \E i \in 1..Len(inflight) :
            \/ \E raw \in RawResponses : Resolve(i, raw)
            \/ Reject(i)

Next ==
    \/ \E v \in Inputs : SetUrl(v)
    \/ HandleSubmit
    \/ \E i \in 1..Len(inflight), raw \in RawResponses : Resolve(i, raw)
    \/ \E i \in 1..Len(inflight) : Reject(i)

Spec == Init /\ [][Next]_vars

\* Every issued call resolves or rejects in the end.
FairSpec == Spec /\ WF_vars(Settle)

TypeOK ==
    /\ url \in Inputs \cup {<<>>}
    /\ loading \in BOOLEAN
    /\ pc \in {"start", "returned", "awaiting", "done"}
    /\ escaped \in BOOLEAN

(* ------------------- vocabulary of the specification ------------------- *)

\* RequestState, read off the four pieces of component state.
State ==
    IF loading THEN "Loading"
    ELSE IF paperData # Null THEN "Succeeded"
    ELSE IF error # "" THEN "Failed"
    ELSE "Idle"

\* Some character is not white space.
NonBlank(s) == \E k \in 1..Len(s) : s[k] \notin WhiteSpace

AllDigits(w) == \A k \in 1..Len(w) : w[k] \in Digit

\* digits, optionally '.'digits, optionally 'v'digits.
IsId(w) ==
    \E a \in 1..Len(w), b \in 1..Len(w) :
        /\ a <= b
        /\ AllDigits(SubSeq(w, 1, a))
        /\ \/ \E c \in a + 2..b :
                /\ w[a + 1] = "."
                /\ AllDigits(SubSeq(w, a + 2, c))
                /\ \/ c = b
                   \/ /\ c + 2 <= b
                      /\ w[c + 1] = "v"
                      /\ AllDigits(SubSeq(w, c + 2, b))
           \/ a = b
           \/ /\ a + 2 <= b
              /\ w[a + 1] = "v"
              /\ AllDigits(SubSeq(w, a + 2, b))
        /\ b = Len(w)

\* [scheme://][www.]host/(abs|pdf)/, the part of the shape before <id>.
ShapeHeads ==
    {sc \o ww \o HOST \o p :
        sc \in {<<>>, HTTP, HTTPS}, ww \in {<<>>, WWW}, p \in {ABS, PDF}}

\* The shape occurs somewhere in s: at some position stands one of the
\* heads, followed by an identifier.
MatchesShape(s) ==
    \E i \in 1..Len(s), head \in ShapeHeads :
        /\ Lit(s, i, head)
        /\ \E j \in i + Len(head)..Len(s) : IsId(SubSeq(s, i + Len(head), j))

\* The parsed result signals success and carries metadata and a summary.
Complete(r) ==
    /\ r.success
    /\ "metadata" \in DOMAIN r.data
    /\ "summary" \in DOMAIN r.data
    /\ r.data["summary"] # ""

Parsed(raw) == parseLLMJson(raw, Fallback)

\* A step of handleSubmit up to its await; such a step leaves url alone.
SubmitStep == url' = url /\ HandleSubmit

\* The step in which the call in flight resolves with text raw.
ResolveStep(raw) == inflight # <<>> /\ Resolve(1, raw)

\* The step in which the call in flight rejects.
RejectStep == inflight # <<>> /\ Reject(1)

(* ------------------------------- claims -------------------------------- *)

\* C1: every submission that enters Loading leaves it again: whenever the
\* call settles, by resolving or by rejecting, handleSubmit clears loading,
\* so under the assumption that an issued call settles in the end, loading
\* never stays true for ever, and no settled submission is left in Loading.
C1_LoadingAlwaysCleared ==
    /\ loading ~> ~loading
    /\ [](pc = "done" /\ inflight = <<>> => ~loading)

C1_Witness ==
    pc = "done" /\ inflight = <<>> /\ ~loading /\ error = SummarizeFailedMsg

\* C2: a submission of an input that is not blank and contains the shape
\* issues exactly one collaborator call, together with setting loading, with
\* the fixed agent id and the prompt "Summarize this arXiv paper: <id>", <id>
\* being the non-empty identifier extracted from the input; the settlement of
\* that call, successful or not, issues no further call.
C2_ExactlyOneCall ==
    /\ [][SubmitStep /\ NonBlank(url) /\ MatchesShape(url) =>
            LET id == extractArxivId(url)
                call == [message |-> PromptPrefix \o id, agent_id |-> AGENT_ID]
            IN  /\ id # <<>>
                /\ IsId(id)
                /\ url = ExampleUrl => id = ExampleId
                /\ loading'
                /\ calls' = <<call>>
                /\ inflight' = Append(inflight, call)]_vars
    /\ [][pc = "awaiting" =>
            /\ Len(calls) = 1
            /\ inflight = calls
            /\ pc' = "done" => calls' = calls /\ inflight' = <<>>]_vars

C2_Witness ==
    /\ pc = "done"
    /\ url = ExampleUrl
    /\ calls = <<[message |-> PromptPrefix \o ExampleId, agent_id |-> AGENT_ID]>>
    /\ inflight = <<>>
    /\ error = ExceptionMsg

\* C3: a submission of an input that is not blank and does not contain the
\* shape fails validation and ends with the invalid-URL message, loading not
\* set and no collaborator call issued.
C3_InvalidUrlRejected ==
    [][SubmitStep /\ NonBlank(url) /\ ~MatchesShape(url) =>
            /\ ~validateArxivUrl(url)
            /\ error' = InvalidMsg
            /\ paperData' = Null
            /\ ~loading'
            /\ calls' = <<>>
            /\ inflight' = inflight /\ inflight = <<>>]_vars

C3_Witness ==
    /\ pc = "returned"
    /\ NonBlank(url) /\ ~MatchesShape(url)
    /\ error = InvalidMsg
    /\ State = "Failed"
    /\ calls = <<>>

\* C4: a submission of an empty or all-white-space input ends with the
\* empty-input message (not the invalid-URL message), loading not set and no
\* collaborator call issued.
C4_BlankRejected ==
    [][SubmitStep /\ ~NonBlank(url) =>
            /\ error' = EmptyMsg
            /\ paperData' = Null
            /\ ~loading'
            /\ calls' = <<>>
            /\ inflight' = inflight /\ inflight = <<>>]_vars

C4_Witness ==
    /\ pc = "returned"
    /\ url = <<" ", "\t">>
    /\ error = EmptyMsg
    /\ State = "Failed"
    /\ calls = <<>>

\* The message C5 expects, as the claim words it: the parsed error message
\* if one is present.
C5_MessageIfPresent(r) ==
    IF "error" \in DOMAIN r.data THEN r.data["error"] ELSE SummarizeFailedMsg

\* The message C5 expects, amended: the parsed error message if one is
\* present and not empty.
C5_MessageIfNonEmpty(r) ==
    IF "error" \in DOMAIN r.data /\ r.data["error"] # ""
    THEN r.data["error"] ELSE SummarizeFailedMsg

\* The two payloads C5 names.
C5_Named(raw) ==
    /\ raw = Unparseable => error' = ParseFailedMsg
    /\ raw = [parseable |-> TRUE,
              value |-> [success |-> TRUE, data |-> DataOf({}, {}, {})]]
          => error' = SummarizeFailedMsg

\* C5 as claimed: a parsed result that does not both signal success and carry
\* metadata and a summary ends the submission in Failed(message) with no
\* result, message being the parsed error message if one is present and
\* "Failed to summarize paper" otherwise.
C5_Original ==
    [][inflight # <<>> => \A raw \in RawResponses :
        ResolveStep(raw) /\ ~Complete(Parsed(raw)) =>
            /\ error' = C5_MessageIfPresent(Parsed(raw))
            /\ paperData' = Null
            /\ ~loading'
            /\ C5_Named(raw)]_vars

\* C5 amended: a parsed result that does not both signal success and carry
\* metadata and a summary ends the submission in Failed(message) with no
\* result, message being the parsed error message if one is present and not
\* empty and "Failed to summarize paper" otherwise; an unparseable payload
\* gives "Failed to parse response" and {success:true, data:{}} gives
\* "Failed to summarize paper".
C5_FailureMessage ==
    [][inflight # <<>> => \A raw \in RawResponses :
        ResolveStep(raw) /\ ~Complete(Parsed(raw)) =>
            /\ error' = C5_MessageIfNonEmpty(Parsed(raw))
            /\ error' # ""
            /\ paperData' = Null
            /\ ~loading'
            /\ State' = "Failed"
            /\ C5_Named(raw)]_vars

C5_Witness ==
    pc = "done" /\ State = "Failed" /\ error = ParseFailedMsg

\* C6: the state becomes Succeeded exactly when the parsed result signals
\* success and carries metadata and a non-empty summary; the stored result
\* then is the metadata and summary of that parsed result, and no error
\* message is set.
C6_SucceededIff ==
    /\ [][inflight # <<>> => \A raw \in RawResponses :
            ResolveStep(raw) =>
                /\ State' = "Succeeded" <=> Complete(Parsed(raw))
                /\ Complete(Parsed(raw)) =>
                     /\ paperData' = [metadata |-> Parsed(raw).data["metadata"],
                                      summary |-> Parsed(raw).data["summary"]]
                     /\ error' = ""]_vars
    /\ [][State' = "Succeeded" /\ State # "Succeeded" =>
            \E raw \in RawResponses :
                ResolveStep(raw) /\ Complete(Parsed(raw))]_vars

C6_Witness ==
    /\ pc = "done"
    /\ State = "Succeeded"
    /\ paperData = [metadata |-> Meta2, summary |-> "X"]
    /\ error = ""

\* C7: when the collaborator call rejects, the submission ends with the
\* processing-error message, no result, loading cleared, and the exception
\* does not leave handleSubmit.
C7_RejectionHandled ==
    /\ [][RejectStep =>
            /\ error' = ExceptionMsg
            /\ paperData' = Null
            /\ ~loading'
            /\ State' = "Failed"]_vars
    /\ []~escaped

C7_Witness ==
    pc = "done" /\ error = ExceptionMsg /\ paperData = Null /\ ~loading

\* C8: with submissions made through the disabled-while-loading control, at
\* most one collaborator call is in flight, and a call is in flight exactly
\* while loading holds.
C8_SingleFlight ==
    /\ Len(inflight) <= 1
    /\ Len(inflight) = 1 <=> loading
    /\ loading <=> pc = "awaiting"

C8_Witness ==
    Len(inflight) = 1 /\ loading /\ ~ENABLED HandleSubmit

\* The transitions of the diagram.
C9_Diagram ==
    {<<"Idle", "Failed">>, <<"Idle", "Loading">>,
     <<"Loading", "Succeeded">>, <<"Loading", "Failed">>,
     <<"Succeeded", "Loading">>, <<"Failed", "Loading">>}

\* C9 as claimed: the request state moves only along the diagram, and every
\* submission from Succeeded or Failed leads to Loading.
C9_Original ==
    [][/\ State' # State => <<State, State'>> \in C9_Diagram
       /\ SubmitStep /\ State \in {"Succeeded", "Failed"}
            => State' = "Loading"]_vars

\* C9 amended: a submission from Idle, Succeeded or Failed clears the prior
\* result and goes to Failed when the input is invalid and, clearing the
\* prior error as well, to Loading when it is valid; Loading goes only to
\* Succeeded or Failed; nothing else changes the request state, and in every
\* state a submission or a settlement is possible.
C9_Transitions ==
    /\ [][/\ SubmitStep =>
               /\ State \in {"Idle", "Succeeded", "Failed"}
               /\ paperData' = Null
               /\ IF NonBlank(url) /\ MatchesShape(url)
                  THEN State' = "Loading" /\ error' = ""
                  ELSE State' = "Failed"
          /\ State = "Loading" /\ State' # State =>
               /\ State' \in {"Succeeded", "Failed"}
               /\ Settle
          /\ State # "Loading" /\ State' # State => SubmitStep]_vars
    /\ [](IF State = "Loading" THEN ENABLED Settle ELSE ENABLED HandleSubmit)

C9_Witness ==
    /\ pc = "returned"
    /\ State = "Failed"
    /\ error = InvalidMsg
    /\ url = Garbage
    /\ calls = <<>>

\* C10: the held state is exactly one of Idle, Loading, Failed, Succeeded:
\* the error message and the result are never both populated, and while
\* loading holds neither is populated.
C10_OneVariant ==
    /\ ~(error # "" /\ paperData # Null)
    /\ loading => error = "" /\ paperData = Null
    /\ paperData # Null => paperData.summary # ""

C10_Witness ==
    loading /\ error = "" /\ paperData = Null /\ url = ExampleUrl

====
